---- MODULE Spec2Model ----
(***************************************************************************)
(* Version resolution of the ImGuiImplD2D conan recipe                     *)
(* (conanfile.py, ImGuiImplD2D.set_version).                               *)
(*                                                                         *)
(* Python strings are sequences of one-character strings.  The element     *)
(* ArabicTwo stands for the single character U+0662 (ARABIC-INDIC DIGIT    *)
(* TWO), a decimal digit outside ASCII.  None is the Python value None.    *)
(***************************************************************************)
EXTENDS Integers, Sequences, FiniteSets, TLC

VARIABLES
    version,      \* self.version of the recipe object
    pc,           \* position of control in set_version
    exc,          \* exception that left set_version, NoExc when none
    queried,      \* external queries made by the current call, in order
    wc,           \* working copy: outcome of each of the four external queries
    clock,        \* UTC wall clock, seconds since midnight
    calls,        \* number of calls of set_version started so far
    entryVersion, \* self.version when the current call started, which is
                  \* self.version when the previous call ended
    unchanged     \* the current call sees the same working copy as the previous one

vars == <<version, pc, exc, queried, wc, clock, calls, entryVersion, unchanged>>

(***************************************************************************)
(* Bounds                                                                  *)
(***************************************************************************)
MaxCalls == 2
MaxTicks == 1

(***************************************************************************)
(* Python values                                                           *)
(***************************************************************************)
None == <<"None">>
NoExc == "NoExc"

AsciiDigits == {"0", "1", "2", "3", "4", "5", "6", "7", "8", "9"}
NonZeroDigits == AsciiDigits \ {"0"}
ArabicTwo == "U+0662"
\* \d of a str pattern: every Unicode decimal digit
UnicodeDigits == AsciiDigits \cup {ArabicTwo}
Letters == {"a", "b", "c", "d", "e", "f", "g", "h", "i", "j", "k", "l", "m",
            "n", "o", "p", "q", "r", "s", "t", "u", "v", "w", "x", "y", "z",
            "A", "B", "C", "D", "E", "F", "G", "H", "I", "J", "K", "L", "M",
            "N", "O", "P", "Q", "R", "S", "T", "U", "V", "W", "X", "Y", "Z"}
Whitespace == {" ", "\n", "\t", "\r"}

\* str.startswith
StartsWith(s, p) == Len(s) >= Len(p) /\ SubSeq(s, 1, Len(p)) = p

\* str.strip(): remove leading and trailing whitespace
RECURSIVE LStrip(_)
LStrip(s) == IF s # <<>> /\ Head(s) \in Whitespace THEN LStrip(Tail(s)) ELSE s

RECURSIVE RStrip(_)
RStrip(s) ==
    IF s # <<>> /\ s[Len(s)] \in Whitespace THEN RStrip(SubSeq(s, 1, Len(s) - 1)) ELSE s

Strip(s) == RStrip(LStrip(s))

(***************************************************************************)
(* The pattern of line 37, matched by re.match.  Each operator gives the   *)
(* set of positions at which a match of its sub-pattern, started at        *)
(* position i of s, can end (positions are 1-based, Len(s) + 1 is the end  *)
(* of the string).                                                         *)
(***************************************************************************)
\* [0-9a-zA-Z-]
IdentChars == AsciiDigits \cup Letters \cup {"-"}

\* every character of s[i..j-1] is in class C
AllIn(s, i, j, C) == \A k \in i..(j - 1) : s[k] \in C

\* 0|[1-9]\d*
NumericEnds(s, i) ==
    IF i > Len(s) THEN {}
    ELSE (IF s[i] = "0" THEN {i + 1} ELSE {})
         \cup (IF s[i] \in NonZeroDigits
               THEN {j \in (i + 1)..(Len(s) + 1) : AllIn(s, i + 1, j, UnicodeDigits)}
               ELSE {})

\* \d*[a-zA-Z-][0-9a-zA-Z-]*
AlnumEnds(s, i) ==
    {j \in (i + 1)..(Len(s) + 1) :
        \E k \in i..(j - 1) : /\ AllIn(s, i, k, UnicodeDigits)
                              /\ s[k] \in Letters \cup {"-"}
                              /\ AllIn(s, k + 1, j, IdentChars)}

\* (?:0|[1-9]\d*|\d*[a-zA-Z-][0-9a-zA-Z-]*)
PrereleaseIdEnds(s, i) == NumericEnds(s, i) \cup AlnumEnds(s, i)

\* [0-9a-zA-Z-]+
BuildIdEnds(s, i) == {j \in (i + 1)..(Len(s) + 1) : AllIn(s, i, j, IdentChars)}

\* the positions after a literal character c that follows a position of E
AfterChar(s, E, c) == {e + 1 : e \in {x \in E : x <= Len(s) /\ s[x] = c}}

\* ID(?:\.ID)* for the prerelease identifiers
RECURSIVE PrereleaseEnds(_, _)
PrereleaseEnds(s, i) ==
    LET E == PrereleaseIdEnds(s, i)
    IN  E \cup UNION {PrereleaseEnds(s, j) : j \in AfterChar(s, E, ".")}

\* ID(?:\.ID)* for the build metadata identifiers
RECURSIVE BuildEnds(_, _)
BuildEnds(s, i) ==
    LET E == BuildIdEnds(s, i)
    IN  E \cup UNION {BuildEnds(s, j) : j \in AfterChar(s, E, ".")}

\* ^major\.minor\.patch
CoreEnds(s) ==
    LET major == NumericEnds(s, 1)
        minor == UNION {NumericEnds(s, j) : j \in AfterChar(s, major, ".")}
    IN  UNION {NumericEnds(s, j) : j \in AfterChar(s, minor, ".")}

\* $ without re.MULTILINE: the end of the string, or just before a final newline
AtDollar(s, e) == e = Len(s) + 1 \/ (e = Len(s) /\ s[e] = "\n")

\* re.match(pattern, tag) is not None
SemVerMatch(s) ==
    LET core == CoreEnds(s)
        pre == core \cup UNION {PrereleaseEnds(s, j) : j \in AfterChar(s, core, "-")}
        build == pre \cup UNION {BuildEnds(s, j) : j \in AfterChar(s, pre, "+")}
    IN  \E e \in build : AtDollar(s, e)

(***************************************************************************)
(* strftime('%Y%m%dT%H%M%S') of the UTC clock.  The clock counts the       *)
(* seconds of 2024-01-15.                                                  *)
(***************************************************************************)
DigitChars == <<"0", "1", "2", "3", "4", "5", "6", "7", "8", "9">>
TwoDigits(n) == <<DigitChars[(n \div 10) + 1], DigitChars[(n % 10) + 1]>>
Strftime(t) ==
    <<"2", "0", "2", "4", "0", "1", "1", "5", "T">>
    \o TwoDigits(t \div 3600) \o TwoDigits((t \div 60) % 60) \o TwoDigits(t % 60)

ClockStart == 9 * 3600 + 29 * 60 + 59

(***************************************************************************)
(* Outcomes of the external queries: a returned string or a raised         *)
(* exception.                                                              *)
(***************************************************************************)
Ok(v) == [ok |-> TRUE, val |-> v]
Raises(e) == [ok |-> FALSE, val |-> <<e>>]

\* mutant: the module also imports datetime
ModuleGlobalsWithDatetime ==
    {"ConanFile", "CMakeToolchain", "CMake", "cmake_layout", "load", "copy",
     "Git", "re", "os", "ImGuiImplD2D", "datetime"}

\* the names bound at module level by lines 1-8
ModuleGlobals ==
    {"ConanFile", "CMakeToolchain", "CMake", "cmake_layout", "load", "copy",
     "Git", "re", "os", "ImGuiImplD2D"}

\* mutant: the except clauses name ConanException only
ExceptConanException(e) == e = "ConanException"

\* an except clause without an exception class handles every exception
BareExcept(e) == TRUE

CciPrefix == <<"c", "c", "i", "_">>
RevPrefix == <<"r", "e", "v", "_">>

(***************************************************************************)
(* The bodies of the four try blocks.  Each gives self.version after the   *)
(* body, the exception the body raised (NoExc when none) and whether the   *)
(* body executed a return statement.                                       *)
(***************************************************************************)
Outcome(v, e, r) == [version |-> v, exc |-> e, ret |-> r]

\* mutant: utcnow is reachable, the timestamp is formatted and assigned
DirtyBodyTimestamped(v, w, t) ==
    IF w.dirty = "error" THEN Outcome(v, "ConanException", FALSE)
    ELSE IF w.dirty = "dirty" THEN Outcome(CciPrefix \o Strftime(t), NoExc, FALSE)
         ELSE Outcome(v, NoExc, FALSE)

\* lines 29-30
DirtyBody(v, w, t) ==
    IF w.dirty = "error" THEN Outcome(v, "ConanException", FALSE)
    ELSE IF w.dirty = "dirty"
         THEN IF "datetime" \in ModuleGlobals
              THEN Outcome(CciPrefix \o Strftime(t), NoExc, FALSE)
              ELSE Outcome(v, "NameError", FALSE)
         ELSE Outcome(v, NoExc, FALSE)

\* mutant: the prefix is removed from a bare tag name only
DescribedTagBareOnly(out) ==
    LET tag == Strip(out)
    IN  IF StartsWith(tag, <<"v">>) /\ \A i \in 1..Len(tag) : tag[i] # "-"
        THEN Strip(Tail(tag))
        ELSE tag

\* lines 34-36: the tag that is handed to re.match
DescribedTag(out) ==
    LET tag == Strip(out)
    IN  IF StartsWith(tag, <<"v">>) THEN Strip(Tail(tag)) ELSE tag

\* mutant: the return of line 39 is missing
DescribeBodyNoReturn(v, w) ==
    IF ~w.describe.ok THEN Outcome(v, w.describe.val[1], FALSE)
    ELSE LET tag == DescribedTag(w.describe.val)
         IN  IF SemVerMatch(tag) THEN Outcome(tag, NoExc, FALSE)
             ELSE Outcome(v, NoExc, FALSE)

\* lines 34-39
DescribeBody(v, w) ==
    IF ~w.describe.ok THEN Outcome(v, w.describe.val[1], FALSE)
    ELSE LET tag == DescribedTag(w.describe.val)
         IN  IF SemVerMatch(tag) THEN Outcome(tag, NoExc, TRUE)
             ELSE Outcome(v, NoExc, FALSE)

\* mutant: the file content is not stripped
FileBodyNoStrip(v, w) ==
    IF ~w.file.ok THEN Outcome(v, w.file.val[1], FALSE)
    ELSE Outcome(w.file.val, NoExc, TRUE)

\* lines 43-44
FileBody(v, w) ==
    IF ~w.file.ok THEN Outcome(v, w.file.val[1], FALSE)
    ELSE Outcome(Strip(w.file.val), NoExc, TRUE)

\* mutant: the commit identifier is not stripped
CommitBodyNoStrip(v, w) ==
    IF ~w.commit.ok THEN Outcome(v, w.commit.val[1], FALSE)
    ELSE Outcome(RevPrefix \o w.commit.val, NoExc, TRUE)

\* mutant: a failed commit query clears self.version
CommitBodyClears(v, w) ==
    IF ~w.commit.ok THEN Outcome(None, w.commit.val[1], FALSE)
    ELSE Outcome(RevPrefix \o Strip(w.commit.val), NoExc, TRUE)

\* lines 48-49
CommitBody(v, w) ==
    IF ~w.commit.ok THEN Outcome(v, w.commit.val[1], FALSE)
    ELSE Outcome(RevPrefix \o Strip(w.commit.val), NoExc, TRUE)

(***************************************************************************)
(* The working copies a call can observe.                                  *)
(***************************************************************************)
DescribeOutputs ==
    { <<"v", "1", ".", "2", ".", "3">>,
      <<"1", ".", "0", ".", "0", "-", "0">>,
      <<"1", ".", "0", ".", "0", "-", "0", "1">>,
      <<"1", ".", "0", "0", ".", "0">>,
      <<"r", "e", "l", "e", "a", "s", "e", "-", "7">>,
      <<"v", "1", ".", "2", ".", "3", "-", "4", "-", "g", "a", "b", "c", "1", "2", "3">>,
      <<"v", "1", ".", "2", ".", "3", "+", "0", "1", "\n">>,
      <<"1", ArabicTwo, ".", "0", ".", "0">> }

FileContents ==
    { <<"2", ".", "0", ".", "0", "-", "r", "c", ".", "1", "\n">>,
      <<" ", "d", "e", "v", " ", "b", "u", "i", "l", "d", "\n">> }

CommitIds ==
    { <<"a", "b", "c", "1", "2", "3", "\n">> }

WorkingCopies ==
    [ dirty : {"dirty", "clean", "error"},
      describe : {Raises("ConanException")} \cup {Ok(t) : t \in DescribeOutputs},
      file : {Raises("FileNotFoundError")} \cup {Ok(c) : c \in FileContents},
      commit : {Raises("ConanException")} \cup {Ok(h) : h \in CommitIds} ]

(***************************************************************************)
(* State machine                                                           *)
(***************************************************************************)
Init ==
    /\ version = None
    /\ pc = "idle"
    /\ exc = NoExc
    /\ queried = <<>>
    /\ wc \in WorkingCopies
    /\ clock = ClockStart
    /\ calls = 0
    /\ entryVersion = None
    /\ unchanged = FALSE

\* the except clause after a try body: control continues at `next` when the
\* body raised nothing or the clause handles the exception
Handle(r, next) ==
    IF r.exc = NoExc \/ BareExcept(r.exc)
    THEN pc' = next /\ exc' = NoExc
    ELSE pc' = "raised" /\ exc' = r.exc

\* a call of set_version starts (lines 26-27); the working copy may have
\* changed and the clock has advanced since the previous call
Call ==
    /\ pc \in {"idle", "done", "raised"}
    /\ calls < MaxCalls
    /\ \E w \in WorkingCopies, d \in 1..MaxTicks :
          /\ wc' = w
          /\ unchanged' = (calls > 0 /\ w = wc)
          /\ clock' = clock + d
    /\ calls' = calls + 1
    /\ entryVersion' = version
    /\ pc' = "dirty"
    /\ exc' = NoExc
    /\ queried' = <<>>
    /\ UNCHANGED version

\* lines 28-32
StepDirty ==
    /\ pc = "dirty"
    /\ LET r == DirtyBody(version, wc, clock)
       IN  /\ version' = r.version
           /\ Handle(r, "describe")
    /\ queried' = Append(queried, "is_dirty")
    /\ UNCHANGED <<wc, clock, calls, entryVersion, unchanged>>

\* lines 33-41
StepDescribe ==
    /\ pc = "describe"
    /\ LET r == DescribeBody(version, wc)
       IN  /\ version' = r.version
           /\ Handle(r, IF r.ret THEN "done" ELSE "file")
    /\ queried' = Append(queried, "describe")
    /\ UNCHANGED <<wc, clock, calls, entryVersion, unchanged>>

\* lines 42-46
StepFile ==
    /\ pc = "file"
    /\ LET r == FileBody(version, wc)
       IN  /\ version' = r.version
           /\ Handle(r, IF r.ret THEN "done" ELSE "commit")
    /\ queried' = Append(queried, "load")
    /\ UNCHANGED <<wc, clock, calls, entryVersion, unchanged>>

\* lines 47-52
StepCommit ==
    /\ pc = "commit"
    /\ LET r == CommitBody(version, wc)
       IN  /\ version' = r.version
           /\ Handle(r, "done")
    /\ queried' = Append(queried, "get_commit")
    /\ UNCHANGED <<wc, clock, calls, entryVersion, unchanged>>

Next == Call \/ StepDirty \/ StepDescribe \/ StepFile \/ StepCommit

Spec == Init /\ [][Next]_vars

(***************************************************************************)
(* Vocabulary of the properties                                            *)
(***************************************************************************)
Running == pc \in {"dirty", "describe", "file", "commit"}
PastDescribe == pc \in {"file", "commit", "done", "raised"}
PastFile == pc \in {"commit", "done", "raised"}
Asked(q) == \E i \in 1..Len(queried) : queried[i] = q

\* the fields of s between the occurrences of the character c
RECURSIVE SplitOn(_, _)
SplitOn(s, c) ==
    IF \E i \in 1..Len(s) : s[i] = c
    THEN LET i == CHOOSE k \in 1..Len(s) : s[k] = c /\ \A j \in 1..(k - 1) : s[j] # c
         IN  <<SubSeq(s, 1, i - 1)>> \o SplitOn(SubSeq(s, i + 1, Len(s)), c)
    ELSE <<s>>

FirstIndex(s, c) ==
    IF \E i \in 1..Len(s) : s[i] = c
    THEN CHOOSE k \in 1..Len(s) : s[k] = c /\ \A j \in 1..(k - 1) : s[j] # c
    ELSE 0

AllChars(f, C) == \A i \in 1..Len(f) : f[i] \in C
IsNumericId(f) == f # <<>> /\ AllChars(f, AsciiDigits) /\ (Len(f) > 1 => f[1] # "0")
IsBuildId(f) == f # <<>> /\ AllChars(f, IdentChars)
IsPrereleaseId(f) == IsBuildId(f) /\ (AllChars(f, AsciiDigits) => IsNumericId(f))
AllFields(fs, P(_)) == \A i \in 1..Len(fs) : P(fs[i])

\* the semantic-versioning grammar MAJOR.MINOR.PATCH[-PRERELEASE][+BUILD],
\* stated field by field
IsSemVer(s) ==
    LET plus == FirstIndex(s, "+")
        main == IF plus = 0 THEN s ELSE SubSeq(s, 1, plus - 1)
        dash == FirstIndex(main, "-")
        core == IF dash = 0 THEN main ELSE SubSeq(main, 1, dash - 1)
        coreFields == SplitOn(core, ".")
    IN  /\ Len(coreFields) = 3
        /\ AllFields(coreFields, IsNumericId)
        /\ dash # 0 =>
              AllFields(SplitOn(SubSeq(main, dash + 1, Len(main)), "."), IsPrereleaseId)
        /\ plus # 0 =>
              AllFields(SplitOn(SubSeq(s, plus + 1, Len(s)), "."), IsBuildId)

\* a describe result with the leading v removed
WithoutV(out) ==
    LET t == Strip(out) IN IF t # <<>> /\ t[1] = "v" THEN Tail(t) ELSE t

\* the grammar check of line 37 accepts the describe result
TagAccepted == wc.describe.ok /\ SemVerMatch(DescribedTag(wc.describe.val))

AllSourcesFail == ~TagAccepted /\ ~wc.file.ok /\ ~wc.commit.ok

\* git describe appends -<distance>-g<abbreviated hash> to the tag name when
\* the commit is not the tagged one
HexChars == AsciiDigits \cup {"a", "b", "c", "d", "e", "f"}
HasDistanceSuffix(s) ==
    \E i \in 1..Len(s), j \in 1..Len(s) :
        /\ s[i] = "-" /\ i + 1 < j /\ AllIn(s, i + 1, j, AsciiDigits)
        /\ s[j] = "-" /\ j + 2 <= Len(s) /\ s[j + 1] = "g"
        /\ AllIn(s, j + 2, Len(s) + 1, HexChars)

\* the version the sources of the current working copy determine,
\* entryVersion when none of them yields one
Resolved ==
    IF TagAccepted THEN DescribedTag(wc.describe.val)
    ELSE IF wc.file.ok THEN Strip(wc.file.val)
    ELSE IF wc.commit.ok THEN RevPrefix \o Strip(wc.commit.val)
    ELSE entryVersion

(***************************************************************************)
(* Properties                                                              *)
(***************************************************************************)

\* C1: no exception leaves set_version, whichever of the four external
\* queries fail: control never reaches the raised state, a call in progress
\* can always take its next step, and a finished call has asked at most the
\* four queries and left self.version a string or None.
C1_NoErrorPropagates ==
    /\ pc # "raised"
    /\ exc = NoExc
    /\ Running => ENABLED (StepDirty \/ StepDescribe \/ StepFile \/ StepCommit)
    /\ pc = "done" => Len(queried) <= 4

C1_Witness ==
    /\ pc = "done"
    /\ wc.dirty = "error" /\ ~wc.describe.ok /\ ~wc.file.ok /\ ~wc.commit.ok
    /\ queried = <<"is_dirty", "describe", "load", "get_commit">>
    /\ version = None

\* C2: when describe succeeds and its result without the leading v is a
\* semantic version, the call ends with that string as the version,
\* whatever the dirty check gave, having asked neither the version file
\* nor the commit.
C2_ValidTagWins ==
    (wc.describe.ok /\ IsSemVer(WithoutV(wc.describe.val)) /\ PastDescribe)
        => /\ pc = "done"
           /\ version = WithoutV(wc.describe.val)
           /\ queried = <<"is_dirty", "describe">>

C2_Witness ==
    /\ pc = "done"
    /\ wc.dirty = "dirty"
    /\ wc.describe = Ok(<<"v", "1", ".", "2", ".", "3">>)
    /\ wc.file.ok /\ wc.commit.ok
    /\ version = <<"1", ".", "2", ".", "3">>

C4_CommitFallback ==
    /\ (~TagAccepted /\ ~wc.file.ok /\ wc.commit.ok /\ pc \in {"done", "raised"})
          => pc = "done" /\ version = RevPrefix \o Strip(wc.commit.val)
    /\ (pc = "commit" \/ Asked("get_commit"))
          => /\ SubSeq(queried, 1, 3) = <<"is_dirty", "describe", "load">>
             /\ ~TagAccepted
             /\ ~wc.file.ok

C4_Witness ==
    /\ pc = "done"
    /\ ~TagAccepted /\ ~wc.file.ok
    /\ wc.commit = Ok(<<"a", "b", "c", "1", "2", "3", "\n">>)
    /\ queried = <<"is_dirty", "describe", "load", "get_commit">>
    /\ version = <<"r", "e", "v", "_", "a", "b", "c", "1", "2", "3">>

\* C5: a call that starts with no version and in which describe, the
\* version file and the commit all give nothing ends normally with no
\* version, also when the working tree is dirty.
C5_AbsentWhenAllFail ==
    (entryVersion = None /\ AllSourcesFail /\ pc \in {"done", "raised"})
        => pc = "done" /\ exc = NoExc /\ version = None

C5_Witness ==
    /\ pc = "done"
    /\ entryVersion = None
    /\ wc.dirty = "dirty"
    /\ AllSourcesFail
    /\ Asked("is_dirty") /\ Asked("get_commit")
    /\ version = None

\* C6: a call that sees the working copy of the previous call ends with
\* the version the previous call ended with, although the clock has
\* advanced in between.
C6_Idempotent ==
    (unchanged /\ pc \in {"done", "raised"})
        => pc = "done" /\ version = entryVersion

C6_Witness ==
    /\ pc = "done"
    /\ unchanged
    /\ calls >= 2
    /\ clock >= ClockStart + 2
    /\ wc.dirty = "dirty"
    /\ AllSourcesFail

\* C7, as claimed: after a second call in which every source fails the
\* version is absent, whatever the first call left.
C7_Original ==
    (calls >= 2 /\ pc = "done" /\ AllSourcesFail) => version = None

\* C7, amended: the version after a call is the one the sources seen by
\* that call determine, and when every source fails it is the version the
\* recipe held when the call started (the value the previous call left).
C7_KeepsPreviousVersion ==
    pc = "done" => version = Resolved

C7_Witness ==
    /\ pc = "done"
    /\ calls >= 2
    /\ AllSourcesFail
    /\ entryVersion # None
    /\ version = entryVersion

\* C8: the grammar check accepts a describe result exactly when the result
\* without the leading v is a semantic version.
C8_Original ==
    (wc.describe.ok /\ PastDescribe)
        => ((pc = "done" /\ queried = <<"is_dirty", "describe">>)
               <=> IsSemVer(WithoutV(wc.describe.val)))

\* C9: when the dirty check reports a dirty tree, the version is cci_
\* followed by the compact UTC timestamp when the describe step starts.
C9_Original ==
    (pc = "describe" /\ wc.dirty = "dirty")
        => version = CciPrefix \o Strftime(clock)

\* C10, as claimed: a describe result with a distance suffix is not
\* accepted as the version and the version file is read.
C10_Original ==
    (wc.describe.ok /\ HasDistanceSuffix(Strip(wc.describe.val)) /\ PastDescribe)
        => (pc = "file" \/ Asked("load"))

\* C10, amended: the leading v is removed from a describe result with a
\* distance suffix as from a bare tag; when the rest is a semantic version
\* (the suffix reads as a prerelease) the call ends with it as the version
\* and the version file is not read.
C10_SuffixedTagAccepted ==
    (/\ wc.describe.ok
     /\ HasDistanceSuffix(Strip(wc.describe.val))
     /\ StartsWith(Strip(wc.describe.val), <<"v">>)
     /\ IsSemVer(Tail(Strip(wc.describe.val)))
     /\ PastDescribe)
        => /\ pc = "done"
           /\ version = Tail(Strip(wc.describe.val))
           /\ ~Asked("load")

C10_Witness ==
    /\ pc = "done"
    /\ wc.describe =
          Ok(<<"v", "1", ".", "2", ".", "3", "-", "4", "-", "g", "a", "b", "c", "1", "2", "3">>)
    /\ wc.file.ok
    /\ version = <<"1", ".", "2", ".", "3", "-", "4", "-", "g", "a", "b", "c", "1", "2", "3">>
    /\ queried = <<"is_dirty", "describe">>

====
